---- MODULE Spec2Model ----
(***************************************************************************)
(* Incremental synchronisation engine of the Traccar integration:          *)
(*   - app/actions/client.py    generate_positions, get_positions_since    *)
(*   - app/actions/handlers.py  action_pull_observations_per_device,       *)
(*                              action_pull_observations (the fan-out)     *)
(*   - app/services/state.py    IntegrationStateManager.get_state/set_state*)
(*                                                                         *)
(* Instants are integers counted from datetime.min (one unit is half of    *)
(* the 24h lookback window).                                               *)
(* A per-device cycle is a sequence of steps, one per awaited I/O call.    *)
(* The sequencer (a pure function) is additionally exercised on its own by *)
(* a direct call whose arguments are drawn in Init.                        *)
(* Further specifications follow the delivery loop of one cycle on its own *)
(* (SpecDelivery), one fan-out run (SpecFanOut), two cycles for distinct   *)
(* devices that interleave (SpecTwoSources), two cycles for one device     *)
(* that overlap (SpecSameSource) or follow each other (SpecRetry), one     *)
(* cycle under fair scheduling (SpecFairCycle) and one call of             *)
(* app/services/action_runner.py execute_action (SpecExecuteAction).       *)
(***************************************************************************)
EXTENDS Integers, Sequences, FiniteSets, TLC

\* ------------------------------------------------------------- bounds
MaxTime == 3        \* fixTime of a fetched position ranges over 0..MaxTime
MaxRecords == 3     \* longest list handed to a direct generate_positions call
MaxFetched == 3     \* longest /positions response within a cycle
MaxNow == 3         \* the clock reads Lookback..MaxNow
MaxBatch == 2       \* observations_per_request ranges over 1..MaxBatch
Lag == 1            \* a fix is sent at once or Lag later; the server stamps it Lag later
MaxDevices == 3     \* longest /devices response; Traccar ids range over 1..MaxDevices
MaxTries == 2       \* tries the backoff decorator fits into its max_time
MaxDelivered == 5   \* sequenced observations of a cycle followed from its delivery loop on

\* ------------------------------------------------------------- program constants
Lookback == 2            \* timedelta(days=1), in model units
DeliveryAttempts == 3    \* stamina attempts of a delivery batch
StoreAttempts == 5       \* stamina attempts of a store call
DatetimeMin == 0         \* datetime.min, the smallest instant there is
ListAttempts == 3        \* stamina attempts of the device listing
PortalAttempts == 10     \* stamina attempts of the portal call (the library's default)
\* Devices per batch of published events: 20 in the source, 2 here, so that
\* a /devices response of MaxDevices devices spans more than one batch.
PUBSUB_MESSAGES_TO_PUBLISH_PER_REQUEST == 2

\* An Optional[datetime] argument: None, or a one-element tuple holding the instant.
None == <<>>
Some(t) == <<t>>

Times == 0..MaxTime
FieldNames == {"fixTime", "serverTime"}

\* client.TraccarPosition, reduced to its three timestamps.
TraccarPosition ==
    UNION { { [fixTime |-> f, serverTime |-> f + Lag, deviceTime |-> d] :
                d \in {f, f + Lag} } : f \in Times }

\* getattr(position, recorded_at_field_name)
getattr(position, name) ==
    IF name = "fixTime" THEN position.fixTime ELSE position.serverTime

SeqsUpTo(S, n) == UNION { [1..k -> S] : k \in 0..n }

\* ------------------------------------------------------------- sequencer
\* Mutant: the sort key is the chosen field alone.
KeyLessPrimaryOnly(a, b, name) == getattr(a, name) < getattr(b, name)

\* key=lambda x: (getattr(x, recorded_at_field_name), x.deviceTime), compared
\* as Python compares tuples.
KeyLess(a, b, name) ==
    \/ getattr(a, name) < getattr(b, name)
    \/ getattr(a, name) = getattr(b, name) /\ a.deviceTime < b.deviceTime

\* One step of a stable insertion: x goes after every element whose key is
\* not greater than its own.
RECURSIVE InsertSorted(_, _, _)
InsertSorted(x, s, name) ==
    IF s = <<>> THEN <<x>>
    ELSE IF KeyLess(x, Head(s), name) THEN <<x>> \o s
    ELSE <<Head(s)>> \o InsertSorted(x, Tail(s), name)

\* sorted(positions, key=...): ascending and stable.
RECURSIVE sorted(_, _)
sorted(positions, name) ==
    IF positions = <<>> THEN <<>>
    ELSE InsertSorted(positions[Len(positions)],
                      sorted(SubSeq(positions, 1, Len(positions) - 1), name),
                      name)

\* Mutant: the comparison with the cursor is >= instead of >.
RECURSIVE ScanPositionsKeepsEqual(_, _, _)
ScanPositionsKeepsEqual(s, time_cursor, name) ==
    IF s = <<>> THEN <<>>
    ELSE IF getattr(Head(s), name) >= time_cursor
         THEN <<Head(s)>> \o ScanPositionsKeepsEqual(Tail(s), getattr(Head(s), name), name)
         ELSE ScanPositionsKeepsEqual(Tail(s), time_cursor, name)

\* Mutant: the cursor is never advanced.
RECURSIVE ScanPositionsCursorStuck(_, _, _)
ScanPositionsCursorStuck(s, time_cursor, name) ==
    IF s = <<>> THEN <<>>
    ELSE IF getattr(Head(s), name) > time_cursor
         THEN <<Head(s)>> \o ScanPositionsCursorStuck(Tail(s), time_cursor, name)
         ELSE ScanPositionsCursorStuck(Tail(s), time_cursor, name)

\* The for loop of generate_positions over the sorted list.
RECURSIVE ScanPositions(_, _, _)
ScanPositions(s, time_cursor, name) ==
    IF s = <<>> THEN <<>>
    ELSE IF getattr(Head(s), name) > time_cursor
         THEN <<Head(s)>> \o ScanPositions(Tail(s), getattr(Head(s), name), name)
         ELSE ScanPositions(Tail(s), time_cursor, name)

\* Mutant: lower_date is ignored.
generate_positions_no_lower(positions, lower_date, recorded_at_field_name) ==
    ScanPositions(sorted(positions, recorded_at_field_name),
                  DatetimeMin, recorded_at_field_name)

generate_positions(positions, lower_date, recorded_at_field_name) ==
    LET time_cursor == IF lower_date = None THEN DatetimeMin ELSE lower_date[1]
    IN  ScanPositions(sorted(positions, recorded_at_field_name),
                      time_cursor, recorded_at_field_name)

\* ------------------------------------------------------------- watermark store
Devices == {"d1", "d2"}
Workers == {"w1", "w2"}

\* What Redis holds under integration_state.<integration>.pull_observations.<device>:
\* nothing, bytes that are not JSON, "{}", a JSON object without a usable
\* recorded_at, or the object written by set_state.
NoValue == [kind |-> "none", recorded_at |-> None]
NotJson == [kind |-> "not_json", recorded_at |-> None]
EmptyJson == [kind |-> "empty_json", recorded_at |-> None]
OtherJson == [kind |-> "other_json", recorded_at |-> None]

\* str(datetime) under json.dumps(state, default=str), and pydantic's parse of it.
str_datetime(t) == <<"iso", t>>
parse_datetime(s) == s[2]

\* json.dumps(state, default=str) for state = {"recorded_at": <datetime>}
json_dumps(state) == [kind |-> "state", recorded_at |-> str_datetime(state.recorded_at)]

StoredValues ==
    {NoValue, NotJson, EmptyJson, OtherJson}
        \cup { json_dumps([recorded_at |-> t]) : t \in Times }

\* json.loads(json_value) if json_value else {}: the bytes either decode or
\* raise JSONDecodeError.
JsonDecodes(json_value) == json_value.kind # "not_json"
\* if device_state: an absent key and "{}" both give a falsy dict.
Truthy(json_value) == json_value.kind \in {"other_json", "state"}
\* client.DeviceState.parse_obj(device_state) succeeds.
ParsesAsDeviceState(json_value) == json_value.kind = "state"

Max(a, b) == IF a >= b THEN a ELSE b

\* recorded_at of the DeviceState built in the try block of
\* action_pull_observations_per_device (the stored one, else the default).
DeviceStateRecordedAt(json_value, limit) ==
    IF Truthy(json_value) /\ ParsesAsDeviceState(json_value)
    THEN parse_datetime(json_value.recorded_at)
    ELSE limit

\* Mutant: the stored state is ignored, the fetch always starts 24h back.
StartAtIgnoresState(recorded_at, limit) == limit

\* Mutant: the stored recorded_at is used as it is, however old.
StartAtUnbounded(recorded_at, limit) == recorded_at

\* start_at = max(device_state.recorded_at, start_time_limit)
StartAt(recorded_at, limit) == Max(recorded_at, limit)

\* ------------------------------------------------------------- delivery helpers
DeviceName(d) == IF d = "d1" THEN "tracker one" ELSE "tracker two"

\* handlers.transform: the observation sent downstream (the pass-through
\* attributes are reduced to the two timestamps).
transform(position, device_id, device_name, name) ==
    [source |-> device_id, source_name |-> device_name,
     recorded_at |-> getattr(position, name),
     fixTime |-> position.fixTime, serverTime |-> position.serverTime]

RECURSIVE InsertDescending(_, _)
InsertDescending(x, s) ==
    IF s = <<>> THEN <<x>>
    ELSE IF x.recorded_at > Head(s).recorded_at THEN <<x>> \o s
    ELSE <<Head(s)>> \o InsertDescending(x, Tail(s))

\* Mutant: reverse=True is left out; the observations stay oldest first.
SortedAscending(s) == s

\* sorted(..., key=lambda x: x.get("recorded_at"), reverse=True): descending, stable.
RECURSIVE SortedDescending(_)
SortedDescending(s) ==
    IF s = <<>> THEN <<>>
    ELSE InsertDescending(s[Len(s)], SortedDescending(SubSeq(s, 1, Len(s) - 1)))

\* transformed_data of action_pull_observations_per_device
TransformedData(positions, device_id, device_name, name) ==
    SortedDescending([k \in 1..Len(positions) |->
                        transform(positions[k], device_id, device_name, name)])

Min(a, b) == IF a <= b THEN a ELSE b

\* Mutant: the slice is iterable[i: i + n + 1], so neighbouring batches overlap.
generate_batches_overlapping(iterable, n) ==
    [k \in 1..((Len(iterable) + n - 1) \div n) |->
        SubSeq(iterable, (k - 1) * n + 1, Min(k * n + 1, Len(iterable)))]

\* list(generate_batches(iterable, n)): iterable[i: i + n] for i in range(0, len, n)
generate_batches(iterable, n) ==
    [k \in 1..((Len(iterable) + n - 1) \div n) |->
        SubSeq(iterable, (k - 1) * n + 1, Min(k * n, Len(iterable)))]

\* ------------------------------------------------------------- state
VARIABLES
    store,                \* Redis: device id -> stored value
    now,                  \* the latest reading of the clock
    pc,                   \* per worker: where its cycle stands
    action_config,        \* per worker: PullObservationsPerDeviceConfig
    start_time_limit,     \* per worker: now - 24h, read as the cycle starts
    json_value,           \* per worker: what get_state read
    start_at,             \* per worker: lower bound handed to the fetch
    traccar_observations, \* per worker: what get_positions_since returned
    transformed_data,     \* per worker: observations, newest first
    batch_no,             \* per worker: the batch being delivered (from 1)
    attempt,              \* per worker: attempt number of the running retry
    result,               \* per worker: how the cycle ended
    delivered,            \* per worker: batches the downstream accepted
    calls,                \* per worker: delivery calls made so far, per batch
    writes,               \* per worker: store writes done by the cycle
    store_at_start,       \* per worker: the device's stored value as the cycle began
    requests              \* per worker: how each /positions request of the cycle ended

VARIABLES seq_pc, seq_in, seq_lower, seq_field, seq_out, seq_again_lower, seq_again_out

cycle_vars == <<store, now, pc, action_config, start_time_limit, json_value,
                start_at, traccar_observations, transformed_data, batch_no,
                attempt, result, delivered, calls, writes, store_at_start, requests>>
seq_vars == <<seq_pc, seq_in, seq_lower, seq_field, seq_out,
              seq_again_lower, seq_again_out>>

\* action_pull_observations (the account's fan-out)
VARIABLES
    fan_pc,               \* where the fan-out stands
    fan_config,           \* its PullObservationsConfig
    devices_json,         \* the body of the /devices response that was accepted
    devices,              \* the local devices: what get_device_list returned
    fan_attempt,          \* attempt number of the stamina loop around get_device_list
    fan_tries,            \* tries of the backoff decorator within the attempt
    fan_batch_no,         \* the batch of devices being published (from 1)
    fan_index,            \* the device of that batch being published (from 1)
    published,            \* the events publish_event accepted, in order
    fan_result            \* how the fan-out ended

fan_vars == <<fan_pc, fan_config, devices_json, devices, fan_attempt, fan_tries,
              fan_batch_no, fan_index, published, fan_result>>

\* action_runner.execute_action
VARIABLES
    run_pc,               \* where the call stands
    run_action_id,        \* its action_id argument
    run_config_data,      \* its config_data argument: None or Some(dict)
    run_action_config,    \* the local action_config: "unbound" until it is assigned
    run_attempt,          \* attempt number of the stamina loop around the portal call
    run_pending,          \* the failure response to return once the event is published
    run_events,           \* the failure events publish_event accepted
    run_outcome           \* how the call ended

run_vars == <<run_pc, run_action_id, run_config_data, run_action_config,
              run_attempt, run_pending, run_events, run_outcome>>
vars == <<cycle_vars, seq_vars, fan_vars, run_vars>>

NoConfig == [device_id |-> "", device_name |-> "",
             recorded_at_field_name |-> "", observations_per_request |-> 0]
NoResult == [kind |-> "none", error |-> "", extracted_observations |-> 0]
Returned(n) == [kind |-> "returned", error |-> "", extracted_observations |-> n]
Raised(e) == [kind |-> "raised", error |-> e, extracted_observations |-> 0]

\* The configurations a unit of work can carry for device d.
Configs(d) ==
    { [device_id |-> d, device_name |-> DeviceName(d),
       recorded_at_field_name |-> f, observations_per_request |-> n] :
        f \in FieldNames, n \in 1..MaxBatch }

\* The /positions responses of a cycle: any list of up to MaxFetched positions
\* (the direct calls of the sequencer vary deviceTime as well).
Responses == SeqsUpTo({ p \in TraccarPosition : p.deviceTime = p.fixTime }, MaxFetched)

Running(w) == pc[w] \in {"get_state", "fetch", "deliver", "set_state"}

\* No cycle has run yet on any worker; p is "idle", or "off" when there is no
\* worker to take a unit of work.
CycleLocalsInit(p) ==
    /\ pc = [w \in Workers |-> p]
    /\ action_config = [w \in Workers |-> NoConfig]
    /\ start_time_limit = [w \in Workers |-> 0]
    /\ json_value = [w \in Workers |-> NoValue]
    /\ start_at = [w \in Workers |-> 0]
    /\ traccar_observations = [w \in Workers |-> <<>>]
    /\ transformed_data = [w \in Workers |-> <<>>]
    /\ batch_no = [w \in Workers |-> 0]
    /\ attempt = [w \in Workers |-> 0]
    /\ result = [w \in Workers |-> NoResult]
    /\ delivered = [w \in Workers |-> <<>>]
    /\ calls = [w \in Workers |-> <<>>]
    /\ writes = [w \in Workers |-> 0]
    /\ store_at_start = [w \in Workers |-> NoValue]
    /\ requests = [w \in Workers |-> <<>>]

\* The store holds anything for device d1 (left by earlier runs or by an
\* operator) and nothing for d2.
InitCycle ==
    /\ store \in [Devices -> StoredValues]
    /\ store["d2"] = NoValue
    /\ now = Lookback
    /\ CycleLocalsInit("idle")

NoCycle ==
    /\ store = [d \in Devices |-> NoValue]
    /\ now = Lookback
    /\ CycleLocalsInit("off")

\* The cycle of worker w ends: it returns r or raises.
Finish(w, r) ==
    /\ pc' = [pc EXCEPT ![w] = "done"]
    /\ result' = [result EXCEPT ![w] = r]

\* action_pull_observations_per_device is invoked with a unit of work for
\* device d: the clock is read and the watermark read begins.
StartCycle(w, d) ==
    /\ pc[w] \in {"idle", "done"}
    /\ \E cfg \in Configs(d), t \in now..MaxNow :
        /\ now' = t
        /\ action_config' = [action_config EXCEPT ![w] = cfg]
        /\ start_time_limit' = [start_time_limit EXCEPT ![w] = t - Lookback]
    /\ pc' = [pc EXCEPT ![w] = "get_state"]
    /\ attempt' = [attempt EXCEPT ![w] = 1]
    /\ json_value' = [json_value EXCEPT ![w] = NoValue]
    /\ start_at' = [start_at EXCEPT ![w] = 0]
    /\ traccar_observations' = [traccar_observations EXCEPT ![w] = <<>>]
    /\ transformed_data' = [transformed_data EXCEPT ![w] = <<>>]
    /\ batch_no' = [batch_no EXCEPT ![w] = 0]
    /\ result' = [result EXCEPT ![w] = NoResult]
    /\ delivered' = [delivered EXCEPT ![w] = <<>>]
    /\ calls' = [calls EXCEPT ![w] = <<>>]
    /\ writes' = [writes EXCEPT ![w] = 0]
    /\ store_at_start' = [store_at_start EXCEPT ![w] = store[d]]
    /\ requests' = [requests EXCEPT ![w] = <<>>]
    /\ UNCHANGED store
    /\ UNCHANGED <<seq_vars, fan_vars, run_vars>>

\* state_manager.get_state: the Redis read succeeds; the value is decoded and
\* turned into the DeviceState, and start_at is computed.
GetStateOk(w) ==
    /\ pc[w] = "get_state"
    /\ LET v == store[action_config[w].device_id] IN
        /\ json_value' = [json_value EXCEPT ![w] = v]
        /\ IF JsonDecodes(v)
           THEN /\ pc' = [pc EXCEPT ![w] = "fetch"]
                /\ start_at' = [start_at EXCEPT ![w] =
                      StartAt(DeviceStateRecordedAt(v, start_time_limit[w]),
                              start_time_limit[w])]
                /\ UNCHANGED result
           ELSE /\ Finish(w, Raised("JSONDecodeError"))
                /\ UNCHANGED start_at
    /\ UNCHANGED <<store, now, action_config, start_time_limit,
                   traccar_observations, transformed_data, batch_no, attempt,
                   delivered, calls, writes, store_at_start, requests>>
    /\ UNCHANGED <<seq_vars, fan_vars, run_vars>>

\* Mutant: the retry loop allows one attempt more than max_attempts.
AfterRetriedErrorOneMore(w, max_attempts, e) ==
    \/ /\ attempt[w] < max_attempts + 1
       /\ attempt' = [attempt EXCEPT ![w] = @ + 1]
       /\ UNCHANGED <<pc, result>>
    \/ /\ Finish(w, Raised(e))
       /\ UNCHANGED attempt

\* stamina.retry_context after an attempt raised an error it retries on: the
\* next attempt is made unless max_attempts are used up; it also stops once
\* its time budget (stamina's default timeout) has run out, and then the
\* error e leaves the retry loop.
AfterRetriedError(w, max_attempts, e) ==
    \/ /\ attempt[w] < max_attempts
       /\ attempt' = [attempt EXCEPT ![w] = @ + 1]
       /\ UNCHANGED <<pc, result>>
    \/ /\ Finish(w, Raised(e))
       /\ UNCHANGED attempt

\* Mutant: when the attempts are used up the retry loop starts over.
AfterStoreReadErrorRestarts(w) ==
    /\ attempt' = [attempt EXCEPT ![w] = IF @ < StoreAttempts THEN @ + 1 ELSE 1]
    /\ UNCHANGED <<pc, result>>

\* The retry_context of get_state after an attempt raised redis.RedisError.
AfterStoreReadError(w) == AfterRetriedError(w, StoreAttempts, "RedisError")

\* state_manager.get_state: the Redis read raises RedisError; it is retried,
\* and when stamina gives up the handler logs the error and re-raises it.
GetStateRedisError(w) ==
    /\ pc[w] = "get_state"
    /\ AfterStoreReadError(w)
    /\ UNCHANGED <<store, now, action_config, start_time_limit, json_value,
                   start_at, traccar_observations, transformed_data, batch_no,
                   delivered, calls, writes, store_at_start, requests>>
    /\ UNCHANGED <<seq_vars, fan_vars, run_vars>>

\* Mutant: the handler goes on to transform and deliver whatever it was given.
HasObservationsAlways(positions) == TRUE

\* `if traccar_observations:` a list is truthy when it is not empty.
HasObservations(positions) == positions # <<>>

\* client.get_positions_since returns the sequenced positions of the response;
\* the handler transforms and sorts them, or returns when there are none.
FetchOkFrom(w, responses) ==
    /\ pc[w] = "fetch"
    /\ requests' = [requests EXCEPT ![w] = Append(@, "ok")]
    /\ \E response \in responses :
        LET cfg == action_config[w]
            positions == generate_positions(response, Some(start_at[w]),
                                            cfg.recorded_at_field_name)
        IN  /\ traccar_observations' = [traccar_observations EXCEPT ![w] = positions]
            /\ IF ~HasObservations(positions)
               THEN /\ Finish(w, Returned(0))
                    /\ UNCHANGED <<transformed_data, batch_no, attempt>>
               ELSE /\ transformed_data' = [transformed_data EXCEPT ![w] =
                          TransformedData(positions, cfg.device_id, cfg.device_name,
                                          cfg.recorded_at_field_name)]
                    /\ batch_no' = [batch_no EXCEPT ![w] = 1]
                    /\ attempt' = [attempt EXCEPT ![w] = 1]
                    /\ pc' = [pc EXCEPT ![w] = "deliver"]
                    /\ UNCHANGED result
    /\ UNCHANGED <<store, now, action_config, start_time_limit, json_value,
                   start_at, delivered, calls, writes, store_at_start>>
    /\ UNCHANGED <<seq_vars, fan_vars, run_vars>>

\* The same, with any /positions response of up to MaxFetched positions.
FetchOk(w) == FetchOkFrom(w, Responses)

\* client.get_positions_since catches an httpx.HTTPError, logs it and falls off
\* its end: the handler gets None and len(None) raises TypeError.
FetchHTTPError(w) ==
    /\ pc[w] = "fetch"
    /\ requests' = [requests EXCEPT ![w] = Append(@, "HTTPError")]
    /\ Finish(w, Raised("TypeError"))
    /\ UNCHANGED <<store, now, action_config, start_time_limit, json_value,
                   start_at, traccar_observations, transformed_data, batch_no,
                   attempt, delivered, calls, writes, store_at_start>>
    /\ UNCHANGED <<seq_vars, fan_vars, run_vars>>

\* client.get_positions_since raises something that is no httpx.HTTPError (a
\* position that fails validation, a body that is not JSON): it leaves the handler.
FetchOtherError(w) ==
    /\ pc[w] = "fetch"
    /\ requests' = [requests EXCEPT ![w] = Append(@, "other")]
    /\ Finish(w, Raised("ValidationError"))
    /\ UNCHANGED <<store, now, action_config, start_time_limit, json_value,
                   start_at, traccar_observations, transformed_data, batch_no,
                   attempt, delivered, calls, writes, store_at_start>>
    /\ UNCHANGED <<seq_vars, fan_vars, run_vars>>

Batches(w) == generate_batches(transformed_data[w],
                               action_config[w].observations_per_request)

\* Mutant: the state is taken from the last element, the oldest observation.
StateToSetOldest(w) ==
    [recorded_at |-> transformed_data[w][Len(transformed_data[w])].recorded_at]

\* The stored value after the handler's write: the key is set to the dumped state.
set_state(key, state) == [store EXCEPT ![key] = json_dumps(state)]

\* Mutant: every cycle writes under the key of device d1.
StateKeyShared(w) == "d1"

\* The state written after the last batch: key and value.
StateKey(w) == transformed_data[w][1].source
StateToSet(w) == [recorded_at |-> transformed_data[w][1].recorded_at]

\* calls with one more delivery call counted for batch i.
CountCall(c, i) == IF Len(c) < i THEN Append(c, 1) ELSE [c EXCEPT ![i] = @ + 1]

\* Mutant: the loop is left after its first batch.
AfterBatchStopsEarly(w, i) ==
    /\ batch_no' = batch_no
    /\ pc' = [pc EXCEPT ![w] = "set_state"]

\* What the for loop over the batches does once batch i is accepted.
AfterBatch(w, i) ==
    IF i < Len(Batches(w))
    THEN /\ batch_no' = [batch_no EXCEPT ![w] = i + 1]
         /\ pc' = pc
    ELSE /\ batch_no' = batch_no
         /\ pc' = [pc EXCEPT ![w] = "set_state"]

\* Mutant: the state is written after every accepted batch, from the batch's
\* newest observation.
StoreAfterDeliveryPerBatch(w) ==
    set_state(StateKey(w), [recorded_at |-> Batches(w)[batch_no[w]][1].recorded_at])

\* The store once a batch is accepted: the loop body makes no store call.
StoreAfterDelivery(w) == store

\* send_observations_to_gundi accepts the current batch.
DeliverOk(w) ==
    /\ pc[w] = "deliver"
    /\ calls' = [calls EXCEPT ![w] = CountCall(@, batch_no[w])]
    /\ delivered' = [delivered EXCEPT ![w] = Append(@, Batches(w)[batch_no[w]])]
    /\ AfterBatch(w, batch_no[w])
    /\ attempt' = [attempt EXCEPT ![w] = 1]
    /\ store' = StoreAfterDelivery(w)
    /\ UNCHANGED <<now, action_config, start_time_limit, json_value,
                   start_at, traccar_observations, transformed_data, result, writes,
                   store_at_start, requests>>
    /\ UNCHANGED <<seq_vars, fan_vars, run_vars>>

\* Mutant: the state is written in a finally clause, so also when the
\* delivery error leaves the loop.
AfterDeliveryErrorCommits(w) ==
    \/ /\ attempt[w] < DeliveryAttempts
       /\ attempt' = [attempt EXCEPT ![w] = @ + 1]
       /\ UNCHANGED <<pc, result, store, writes>>
    \/ /\ Finish(w, Raised("HTTPError"))
       /\ store' = set_state(StateKey(w), StateToSet(w))
       /\ UNCHANGED <<attempt, writes>>

\* Mutant: one attempt more than DeliveryAttempts is made.
AfterDeliveryErrorOneMore(w) ==
    /\ AfterRetriedError(w, DeliveryAttempts + 1, "HTTPError")
    /\ UNCHANGED <<store, writes>>

\* The retry_context around a batch after an attempt raised httpx.HTTPError:
\* nothing is written to the store on this path.
AfterDeliveryError(w) ==
    /\ AfterRetriedError(w, DeliveryAttempts, "HTTPError")
    /\ UNCHANGED <<store, writes>>

\* send_observations_to_gundi raises httpx.HTTPError.
DeliverHTTPError(w) ==
    /\ pc[w] = "deliver"
    /\ calls' = [calls EXCEPT ![w] = CountCall(@, batch_no[w])]
    /\ AfterDeliveryError(w)
    /\ UNCHANGED <<now, action_config, start_time_limit, json_value,
                   start_at, traccar_observations, transformed_data, batch_no,
                   delivered, store_at_start, requests>>
    /\ UNCHANGED <<seq_vars, fan_vars, run_vars>>

\* state_manager.set_state succeeds and the handler returns its result.
SetStateOk(w) ==
    /\ pc[w] = "set_state"
    /\ store' = set_state(StateKey(w), StateToSet(w))
    /\ writes' = [writes EXCEPT ![w] = @ + 1]
    /\ Finish(w, Returned(Len(transformed_data[w])))
    /\ UNCHANGED <<now, action_config, start_time_limit, json_value, start_at,
                   traccar_observations, transformed_data, batch_no, attempt,
                   delivered, calls, store_at_start, requests>>
    /\ UNCHANGED <<seq_vars, fan_vars, run_vars>>

\* Mutant: the write that raised has replaced the stored value all the same.
StoreAfterFailedWriteLands(w) == set_state(StateKey(w), StateToSet(w))

\* The store after a SET that raised RedisError: nothing was written.
StoreAfterFailedWrite(w) == store

\* state_manager.set_state: the Redis write raises RedisError and nothing is
\* written; it is retried, and when stamina gives up the error leaves the handler.
SetStateRedisError(w) ==
    /\ pc[w] = "set_state"
    /\ AfterRetriedError(w, StoreAttempts, "RedisError")
    /\ store' = StoreAfterFailedWrite(w)
    /\ UNCHANGED <<now, action_config, start_time_limit, json_value,
                   start_at, traccar_observations, transformed_data, batch_no,
                   delivered, calls, writes, store_at_start, requests>>
    /\ UNCHANGED <<seq_vars, fan_vars, run_vars>>

\* send_observations_to_gundi raises an error that is no httpx.HTTPError: it
\* is not retried and leaves the handler.
DeliverOtherError(w) ==
    /\ pc[w] = "deliver"
    /\ calls' = [calls EXCEPT ![w] = CountCall(@, batch_no[w])]
    /\ Finish(w, Raised("Exception"))
    /\ UNCHANGED <<store, now, action_config, start_time_limit, json_value,
                   start_at, traccar_observations, transformed_data, batch_no,
                   attempt, delivered, writes, store_at_start, requests>>
    /\ UNCHANGED <<seq_vars, fan_vars, run_vars>>

\* The task running the cycle is cancelled while it awaits an I/O call.
Abandon(w) ==
    /\ Running(w)
    /\ Finish(w, [kind |-> "cancelled", error |-> "CancelledError",
                  extracted_observations |-> 0])
    /\ UNCHANGED <<store, now, action_config, start_time_limit, json_value,
                   start_at, traccar_observations, transformed_data, batch_no,
                   attempt, delivered, calls, writes, store_at_start, requests>>
    /\ UNCHANGED <<seq_vars, fan_vars, run_vars>>

\* ------------------------------------------------------------- direct sequencer calls

\* generate_positions is called with any list of positions, any lower_date
\* and either field name.
InitSequencer ==
    /\ seq_pc = "ready"
    /\ seq_in \in SeqsUpTo(TraccarPosition, MaxRecords)
    /\ seq_lower \in {None} \cup { Some(t) : t \in Times }
    /\ seq_field \in FieldNames
    /\ seq_out = <<>>
    /\ seq_again_lower = None
    /\ seq_again_out = <<>>

CallGeneratePositions ==
    /\ seq_pc = "ready"
    /\ seq_pc' = "called"
    /\ seq_out' = generate_positions(seq_in, seq_lower, seq_field)
    /\ UNCHANGED <<seq_in, seq_lower, seq_field, seq_again_lower, seq_again_out>>
    /\ UNCHANGED <<cycle_vars, fan_vars, run_vars>>

\* The call is repeated on the same list as the next cycle would make it: the
\* stored recorded_at is that of the last emitted position, and start_at is
\* the larger of it and that cycle's start_time_limit.
CallGeneratePositionsAgain ==
    /\ seq_pc = "called"
    /\ seq_out # <<>>
    /\ seq_pc' = "called_again"
    /\ \E limit \in Times :
        LET recorded_at == getattr(seq_out[Len(seq_out)], seq_field)
            lower == Some(StartAt(recorded_at, limit))
        IN  /\ seq_again_lower' = lower
            /\ seq_again_out' = generate_positions(seq_in, lower, seq_field)
    /\ UNCHANGED <<seq_in, seq_lower, seq_field, seq_out>>
    /\ UNCHANGED <<cycle_vars, fan_vars, run_vars>>

\* No direct call: the sequencer runs inside cycles only.
NoSequencerCall ==
    /\ seq_pc = "off"
    /\ seq_in = <<>>
    /\ seq_lower = None
    /\ seq_field = "fixTime"
    /\ seq_out = <<>>
    /\ seq_again_lower = None
    /\ seq_again_out = <<>>

\* ------------------------------------------------------------- fan-out
\* str(d.get('id')): the decimal string of the id Traccar gave.
str_id(id) == <<"str", id>>

\* One device of a /devices response body.
TraccarDevices ==
    { [id |-> i, name |-> n] : i \in 1..MaxDevices, n \in {"tracker one", "tracker two"} }

\* The /devices response bodies: any list of up to MaxDevices devices.
DeviceLists == SeqsUpTo(TraccarDevices, MaxDevices)

\* device_ids = [(str(d.get('id')), d.get('name')) for d in response]
DeviceIds(response) == [k \in DOMAIN response |-> <<str_id(response[k].id), response[k].name>>]

\* The PullObservationsConfig of an account.
FanConfigs == { [recorded_at_field_name |-> f] : f \in FieldNames }

\* Mutant: the unit of work carries the default field, not the account's.
EventForDefaultField(device, config) ==
    [action_id |-> "pull_observations_per_device",
     config_data |-> [device_id |-> device[1], device_name |-> device[2],
                      recorded_at_field_name |-> "fixTime"]]

\* The IntegrationActionEvent published for a device.
EventFor(device, config) ==
    [action_id |-> "pull_observations_per_device",
     config_data |-> [device_id |-> device[1], device_name |-> device[2],
                      recorded_at_field_name |-> config.recorded_at_field_name]]

FanBatches == generate_batches(devices, PUBSUB_MESSAGES_TO_PUBLISH_PER_REQUEST)

\* No fan-out runs.
NoFanOut ==
    /\ fan_pc = "off"
    /\ fan_config = [recorded_at_field_name |-> ""]
    /\ devices_json = <<>>
    /\ devices = <<>>
    /\ fan_attempt = 0
    /\ fan_tries = 0
    /\ fan_batch_no = 0
    /\ fan_index = 0
    /\ published = <<>>
    /\ fan_result = NoResult

\* action_pull_observations is invoked for an account and calls get_device_list.
InitFanOut ==
    /\ fan_pc = "list"
    /\ fan_config \in FanConfigs
    /\ devices_json = <<>>
    /\ devices = <<>>
    /\ fan_attempt = 1
    /\ fan_tries = 1
    /\ fan_batch_no = 0
    /\ fan_index = 0
    /\ published = <<>>
    /\ fan_result = NoResult

\* The fan-out ends: it returns r or raises.
FinishFanOut(r) ==
    /\ fan_pc' = "done"
    /\ fan_result' = r

\* get_device_list: the /devices request succeeds; with no device the handler
\* returns 0, else it starts publishing.
ListOk ==
    /\ fan_pc = "list"
    /\ \E response \in DeviceLists :
        /\ devices_json' = response
        /\ devices' = DeviceIds(response)
        /\ IF response = <<>>
           THEN /\ FinishFanOut(Returned(0))
                /\ UNCHANGED <<fan_batch_no, fan_index>>
           ELSE /\ fan_pc' = "publish"
                /\ fan_batch_no' = 1
                /\ fan_index' = 1
                /\ UNCHANGED fan_result
    /\ UNCHANGED <<fan_config, fan_attempt, fan_tries, published>>
    /\ UNCHANGED <<cycle_vars, seq_vars, run_vars>>

\* Mutant: one listing attempt more than ListAttempts is made.
AfterListErrorOneMore ==
    \/ /\ fan_attempt < ListAttempts + 1
       /\ fan_attempt' = fan_attempt + 1
       /\ fan_tries' = 1
       /\ UNCHANGED <<fan_pc, fan_result>>
    \/ /\ FinishFanOut(Raised("HTTPError"))
       /\ UNCHANGED <<fan_attempt, fan_tries>>

\* An httpx.HTTPError left get_device_list: stamina makes the next attempt
\* unless ListAttempts are used up or its time budget has run out, and then
\* the error leaves action_pull_observations.
AfterListError ==
    \/ /\ fan_attempt < ListAttempts
       /\ fan_attempt' = fan_attempt + 1
       /\ fan_tries' = 1
       /\ UNCHANGED <<fan_pc, fan_result>>
    \/ /\ FinishFanOut(Raised("HTTPError"))
       /\ UNCHANGED <<fan_attempt, fan_tries>>

\* get_device_list: the /devices request fails with a timeout, a connection
\* error or an error status; the function logs and re-raises it, and the
\* backoff decorator tries again until its max_time is over.
ListTransientError ==
    /\ fan_pc = "list"
    /\ \/ /\ fan_tries < MaxTries
          /\ fan_tries' = fan_tries + 1
          /\ UNCHANGED <<fan_pc, fan_attempt, fan_result>>
       \/ AfterListError
    /\ UNCHANGED <<fan_config, devices_json, devices, fan_batch_no, fan_index, published>>
    /\ UNCHANGED <<cycle_vars, seq_vars, run_vars>>

\* get_device_list: the request fails with another httpx.HTTPError (none of
\* the three the decorator retries), which goes straight to stamina.
ListOtherHTTPError ==
    /\ fan_pc = "list"
    /\ AfterListError
    /\ UNCHANGED <<fan_config, devices_json, devices, fan_batch_no, fan_index, published>>
    /\ UNCHANGED <<cycle_vars, seq_vars, run_vars>>

\* get_device_list raises an error that is no httpx.HTTPError (the body is
\* not a JSON list of objects): nothing retries it.
ListOtherError ==
    /\ fan_pc = "list"
    /\ FinishFanOut(Raised("Exception"))
    /\ UNCHANGED <<fan_config, devices_json, devices, fan_attempt, fan_tries,
                   fan_batch_no, fan_index, published>>
    /\ UNCHANGED <<cycle_vars, seq_vars, run_vars>>

\* publish_event accepts the event of the current device; after the last
\* device of a batch the handler sleeps.
PublishOk ==
    /\ fan_pc = "publish"
    /\ LET batch == FanBatches[fan_batch_no] IN
        /\ published' = Append(published, EventFor(batch[fan_index], fan_config))
        /\ IF fan_index < Len(batch)
           THEN /\ fan_index' = fan_index + 1
                /\ UNCHANGED fan_pc
           ELSE /\ fan_pc' = "sleep"
                /\ UNCHANGED fan_index
    /\ UNCHANGED <<fan_config, devices_json, devices, fan_attempt, fan_tries,
                   fan_batch_no, fan_result>>
    /\ UNCHANGED <<cycle_vars, seq_vars, run_vars>>

\* publish_event raises: nothing catches it, the fan-out ends with the error.
PublishError ==
    /\ fan_pc = "publish"
    /\ FinishFanOut(Raised("PublishError"))
    /\ UNCHANGED <<fan_config, devices_json, devices, fan_attempt, fan_tries,
                   fan_batch_no, fan_index, published>>
    /\ UNCHANGED <<cycle_vars, seq_vars, run_vars>>

\* asyncio.sleep(10) after a batch is over: the next batch begins, or the
\* handler returns len(devices).
SleepOver ==
    /\ fan_pc = "sleep"
    /\ IF fan_batch_no < Len(FanBatches)
       THEN /\ fan_batch_no' = fan_batch_no + 1
            /\ fan_index' = 1
            /\ fan_pc' = "publish"
            /\ UNCHANGED fan_result
       ELSE /\ FinishFanOut(Returned(Len(devices)))
            /\ UNCHANGED <<fan_batch_no, fan_index>>
    /\ UNCHANGED <<fan_config, devices_json, devices, fan_attempt, fan_tries, published>>
    /\ UNCHANGED <<cycle_vars, seq_vars, run_vars>>

\* The task running the fan-out is cancelled while it awaits.
AbandonFanOut ==
    /\ fan_pc \in {"list", "publish", "sleep"}
    /\ FinishFanOut([kind |-> "cancelled", error |-> "CancelledError",
                     extracted_observations |-> 0])
    /\ UNCHANGED <<fan_config, devices_json, devices, fan_attempt, fan_tries,
                   fan_batch_no, fan_index, published>>
    /\ UNCHANGED <<cycle_vars, seq_vars, run_vars>>

\* ------------------------------------------------------------- execute_action
\* Action ids a caller can pass; action_handlers holds the first two.
SupportedActions == {"pull_observations", "pull_observations_per_device"}
ActionIds == SupportedActions \cup {"pull_events"}

\* config_data: None, an empty dict (falsy, as if not given), or a configuration.
ConfigData == {None, Some("{}"), Some("config")}

\* if config_data:
ConfigPassed == run_config_data = Some("config")

NoOutcome == [kind |-> "none", status |-> 0, error |-> ""]
\* return result
HandlerResult == [kind |-> "result", status |-> 200, error |-> ""]
\* return JSONResponse(status_code=..., content={"detail": message})
FailureResponse(status, e) == [kind |-> "failure", status |-> status, error |-> e]
\* An exception leaves execute_action.
Escaped(e) == [kind |-> "escaped", status |-> 0, error |-> e]

\* e.response.status_code if hasattr(e, "response") else 500: the status of
\* the upstream's answer when the error carries one.
ErrorStatuses == {500, 503}

\* execute_action is not running.
NoExecuteAction ==
    /\ run_pc = "off"
    /\ run_action_id = ""
    /\ run_config_data = None
    /\ run_action_config = "unbound"
    /\ run_attempt = 0
    /\ run_pending = NoOutcome
    /\ run_events = <<>>
    /\ run_outcome = NoOutcome

\* execute_action is called and looks the integration up in the cache.
InitExecuteAction ==
    /\ run_pc = "get_state"
    /\ run_action_id \in ActionIds
    /\ run_config_data \in ConfigData
    /\ run_action_config = "unbound"
    /\ run_attempt = 0
    /\ run_pending = NoOutcome
    /\ run_events = <<>>
    /\ run_outcome = NoOutcome

\* An except clause of execute_action: the failure event is published next,
\* then the response is returned.
FailWith(status, e) ==
    /\ run_pc' = "publish"
    /\ run_pending' = FailureResponse(status, e)

\* The cache holds the integration and it parses.
CacheHit ==
    /\ run_pc = "get_state"
    /\ run_pc' = "find_config"
    /\ UNCHANGED <<run_action_id, run_config_data, run_action_config, run_attempt,
                   run_pending, run_events, run_outcome>>
    /\ UNCHANGED <<cycle_vars, seq_vars, fan_vars>>

\* The cache holds nothing: the portal is asked.
CacheMiss ==
    /\ run_pc = "get_state"
    /\ run_pc' = "portal"
    /\ run_attempt' = 1
    /\ UNCHANGED <<run_action_id, run_config_data, run_action_config,
                   run_pending, run_events, run_outcome>>
    /\ UNCHANGED <<cycle_vars, seq_vars, fan_vars>>

\* get_state raises (Redis is down, the value is not JSON) or the cached
\* value does not parse as an Integration: except Exception.
CacheError ==
    /\ run_pc = "get_state"
    /\ FailWith(500, "retrieving configuration")
    /\ UNCHANGED <<run_action_id, run_config_data, run_action_config, run_attempt,
                   run_events, run_outcome>>
    /\ UNCHANGED <<cycle_vars, seq_vars, fan_vars>>

\* The portal answers and the integration is saved in the cache.
PortalOk ==
    /\ run_pc = "portal"
    /\ run_pc' = "find_config"
    /\ UNCHANGED <<run_action_id, run_config_data, run_action_config, run_attempt,
                   run_pending, run_events, run_outcome>>
    /\ UNCHANGED <<cycle_vars, seq_vars, fan_vars>>

\* The portal call raises httpx.HTTPError: stamina retries it, and when it
\* gives up the error reaches except Exception.
PortalHTTPError ==
    /\ run_pc = "portal"
    /\ \/ /\ run_attempt < PortalAttempts
          /\ run_attempt' = run_attempt + 1
          /\ UNCHANGED <<run_pc, run_pending>>
       \/ /\ \E status \in ErrorStatuses : FailWith(status, "retrieving configuration")
          /\ UNCHANGED run_attempt
    /\ UNCHANGED <<run_action_id, run_config_data, run_action_config,
                   run_events, run_outcome>>
    /\ UNCHANGED <<cycle_vars, seq_vars, fan_vars>>

\* The portal call or the cache write raises something else: it is not
\* retried and reaches except Exception.
PortalOtherError ==
    /\ run_pc = "portal"
    /\ FailWith(500, "retrieving configuration")
    /\ UNCHANGED <<run_action_id, run_config_data, run_action_config, run_attempt,
                   run_events, run_outcome>>
    /\ UNCHANGED <<cycle_vars, seq_vars, fan_vars>>

\* config_data is given: config = config_data, and action_config is never assigned.
ConfigGiven ==
    /\ run_pc = "find_config"
    /\ ConfigPassed
    /\ run_pc' = "run"
    /\ UNCHANGED <<run_action_id, run_config_data, run_action_config, run_attempt,
                   run_pending, run_events, run_outcome>>
    /\ UNCHANGED <<cycle_vars, seq_vars, fan_vars>>

\* find_config_for_action finds the configuration of the action.
ConfigFound ==
    /\ run_pc = "find_config"
    /\ ~ConfigPassed
    /\ run_action_config' = "found"
    /\ run_pc' = "run"
    /\ UNCHANGED <<run_action_id, run_config_data, run_attempt,
                   run_pending, run_events, run_outcome>>
    /\ UNCHANGED <<cycle_vars, seq_vars, fan_vars>>

\* find_config_for_action finds nothing: the 404 response.
ConfigMissing ==
    /\ run_pc = "find_config"
    /\ ~ConfigPassed
    /\ run_action_config' = "none"
    /\ FailWith(404, "configuration missing")
    /\ UNCHANGED <<run_action_id, run_config_data, run_attempt,
                   run_events, run_outcome>>
    /\ UNCHANGED <<cycle_vars, seq_vars, fan_vars>>

\* except KeyError: the event is built with config_data=action_config; when
\* action_config was never assigned, reading it raises UnboundLocalError
\* inside the except clause, which leaves execute_action.
AfterKeyError ==
    IF run_action_config = "unbound"
    THEN /\ run_pc' = "done"
         /\ run_outcome' = Escaped("UnboundLocalError")
         /\ UNCHANGED run_pending
    ELSE /\ FailWith(422, "action not supported")
         /\ UNCHANGED run_outcome

\* action_handlers[action_id] raises KeyError: the action is not supported.
UnsupportedAction ==
    /\ run_pc = "run"
    /\ run_action_id \notin SupportedActions
    /\ AfterKeyError
    /\ UNCHANGED <<run_action_id, run_config_data, run_action_config, run_attempt,
                   run_events>>
    /\ UNCHANGED <<cycle_vars, seq_vars, fan_vars>>

\* The handler runs and returns its result.
HandlerReturns ==
    /\ run_pc = "run"
    /\ run_action_id \in SupportedActions
    /\ run_pc' = "done"
    /\ run_outcome' = HandlerResult
    /\ UNCHANGED <<run_action_id, run_config_data, run_action_config, run_attempt,
                   run_pending, run_events>>
    /\ UNCHANGED <<cycle_vars, seq_vars, fan_vars>>

\* config_model.parse_obj(config) raises pydantic.ValidationError (or the
\* handler lets one out): the 422 response.
InvalidConfiguration ==
    /\ run_pc = "run"
    /\ run_action_id \in SupportedActions
    /\ FailWith(422, "invalid configuration")
    /\ UNCHANGED <<run_action_id, run_config_data, run_action_config, run_attempt,
                   run_events, run_outcome>>
    /\ UNCHANGED <<cycle_vars, seq_vars, fan_vars>>

\* The handler raises KeyError: it is taken for an unsupported action.
HandlerKeyError ==
    /\ run_pc = "run"
    /\ run_action_id \in SupportedActions
    /\ AfterKeyError
    /\ UNCHANGED <<run_action_id, run_config_data, run_action_config, run_attempt,
                   run_events>>
    /\ UNCHANGED <<cycle_vars, seq_vars, fan_vars>>

\* The handler raises any other Exception: except Exception.
HandlerError ==
    /\ run_pc = "run"
    /\ run_action_id \in SupportedActions
    /\ \E status \in ErrorStatuses : FailWith(status, "internal error")
    /\ UNCHANGED <<run_action_id, run_config_data, run_action_config, run_attempt,
                   run_events, run_outcome>>
    /\ UNCHANGED <<cycle_vars, seq_vars, fan_vars>>

\* publish_event accepts the failure event and the response is returned.
FailurePublished ==
    /\ run_pc = "publish"
    /\ run_events' = Append(run_events, run_pending.error)
    /\ run_outcome' = run_pending
    /\ run_pc' = "done"
    /\ UNCHANGED <<run_action_id, run_config_data, run_action_config, run_attempt,
                   run_pending>>
    /\ UNCHANGED <<cycle_vars, seq_vars, fan_vars>>

\* publish_event raises inside the except clause: the error leaves execute_action.
FailurePublishError ==
    /\ run_pc = "publish"
    /\ run_outcome' = Escaped("PublishError")
    /\ run_pc' = "done"
    /\ UNCHANGED <<run_action_id, run_config_data, run_action_config, run_attempt,
                   run_pending, run_events>>
    /\ UNCHANGED <<cycle_vars, seq_vars, fan_vars>>

\* ------------------------------------------------------------- specification
\* Either cycles for device d1 run one after another on worker w1, or the
\* sequencer is called directly.
Init ==
    \/ InitCycle /\ NoSequencerCall /\ NoFanOut /\ NoExecuteAction
    \/ NoCycle /\ InitSequencer /\ NoFanOut /\ NoExecuteAction

Next ==
    \/ StartCycle("w1", "d1")
    \/ GetStateOk("w1")
    \/ GetStateRedisError("w1")
    \/ FetchOk("w1")
    \/ FetchHTTPError("w1")
    \/ FetchOtherError("w1")
    \/ DeliverOk("w1")
    \/ DeliverHTTPError("w1")
    \/ DeliverOtherError("w1")
    \/ SetStateOk("w1")
    \/ SetStateRedisError("w1")
    \/ Abandon("w1")
    \/ CallGeneratePositions
    \/ CallGeneratePositionsAgain

Spec == Init /\ [][Next]_vars

\* ------------------------------------------------------------- delivery loop on its own
\* What the sequencer can hand to the delivery loop: MaxDelivered positions
\* with strictly increasing timestamps above the lower bound 0.
SequencedLists ==
    { s \in [1..MaxDelivered ->
                { [fixTime |-> f, serverTime |-> f + Lag, deviceTime |-> f] :
                    f \in 1..(MaxDelivered + 1) }] :
        \A k \in 1..(MaxDelivered - 1) : s[k].fixTime < s[k + 1].fixTime }

\* A cycle for device d1 on worker w1 stands after its fetch (the sort of
\* transformed_data is done, the loop over the batches begins); nothing or a
\* state not above the lower bound is stored for d1.
InitDelivery ==
    /\ NoSequencerCall
    /\ NoFanOut
    /\ NoExecuteAction
    /\ now = Lookback
    /\ store \in { [d \in Devices |-> IF d = "d1" THEN v ELSE NoValue] :
                     v \in {NoValue, json_dumps([recorded_at |-> 0])} }
    /\ \E cfg \in Configs("d1"), positions \in SequencedLists :
        /\ action_config = [w \in Workers |-> IF w = "w1" THEN cfg ELSE NoConfig]
        /\ traccar_observations = [w \in Workers |-> IF w = "w1" THEN positions ELSE <<>>]
        /\ transformed_data = [w \in Workers |->
              IF w = "w1"
              THEN TransformedData(positions, cfg.device_id, cfg.device_name,
                                   cfg.recorded_at_field_name)
              ELSE <<>>]
    /\ pc = [w \in Workers |-> IF w = "w1" THEN "deliver" ELSE "idle"]
    /\ start_time_limit = [w \in Workers |-> 0]
    /\ json_value = [w \in Workers |-> IF w = "w1" THEN store["d1"] ELSE NoValue]
    /\ start_at = [w \in Workers |-> 0]
    /\ batch_no = [w \in Workers |-> IF w = "w1" THEN 1 ELSE 0]
    /\ attempt = [w \in Workers |-> IF w = "w1" THEN 1 ELSE 0]
    /\ result = [w \in Workers |-> NoResult]
    /\ delivered = [w \in Workers |-> <<>>]
    /\ calls = [w \in Workers |-> <<>>]
    /\ writes = [w \in Workers |-> 0]
    /\ store_at_start = [w \in Workers |-> IF w = "w1" THEN store["d1"] ELSE NoValue]
    /\ requests = [w \in Workers |-> IF w = "w1" THEN <<"ok">> ELSE <<>>]

NextDelivery ==
    \/ DeliverOk("w1")
    \/ DeliverHTTPError("w1")
    \/ DeliverOtherError("w1")
    \/ SetStateOk("w1")
    \/ SetStateRedisError("w1")
    \/ Abandon("w1")

SpecDelivery == InitDelivery /\ [][NextDelivery]_vars

\* ------------------------------------------------------------- fan-out on its own
\* One run of action_pull_observations for an account; no per-device cycle
\* is followed.
InitFanOutOnly == NoCycle /\ NoSequencerCall /\ InitFanOut /\ NoExecuteAction

NextFanOut ==
    \/ ListOk
    \/ ListTransientError
    \/ ListOtherHTTPError
    \/ ListOtherError
    \/ PublishOk
    \/ PublishError
    \/ SleepOver
    \/ AbandonFanOut

SpecFanOut == InitFanOutOnly /\ [][NextFanOut]_vars

\* ------------------------------------------------------------- two sources at once
\* Values the store holds for a device as the two cycles begin.
TwoSourceStored == {NoValue, NotJson, json_dumps([recorded_at |-> 1])}

\* Worker w1 takes the unit of work of device d1 and worker w2 that of d2;
\* the steps of the two cycles interleave in any order.
InitTwoSources ==
    /\ NoSequencerCall
    /\ NoFanOut
    /\ NoExecuteAction
    /\ store \in [Devices -> TwoSourceStored]
    /\ now = Lookback
    /\ CycleLocalsInit("idle")

\* The one cycle of worker w: both units of work are taken at the same clock
\* reading and ask for fixTime in batches of one.
StartOnce(w, d) ==
    /\ pc[w] = "idle"
    /\ StartCycle(w, d)
    /\ now' = now
    /\ action_config'[w].recorded_at_field_name = "fixTime"
    /\ action_config'[w].observations_per_request = 1

\* The /positions response holds at most one position.
FetchFew(w) ==
    FetchOkFrom(w, SeqsUpTo({ p \in TraccarPosition : p.deviceTime = p.fixTime }, 1))

NextTwoSources ==
    \/ StartOnce("w1", "d1")
    \/ StartOnce("w2", "d2")
    \/ \E w \in Workers :
        \/ GetStateOk(w)
        \/ GetStateRedisError(w)
        \/ FetchFew(w)
        \/ FetchHTTPError(w)
        \/ FetchOtherError(w)
        \/ DeliverOk(w)
        \/ DeliverHTTPError(w)
        \/ DeliverOtherError(w)
        \/ SetStateOk(w)
        \/ SetStateRedisError(w)
        \/ Abandon(w)

SpecTwoSources == InitTwoSources /\ [][NextTwoSources]_vars

\* ------------------------------------------------------------- execute_action on its own
\* One call of execute_action; what the handler does inside is not followed.
InitExecuteActionOnly == NoCycle /\ NoSequencerCall /\ NoFanOut /\ InitExecuteAction

NextExecuteAction ==
    \/ CacheHit
    \/ CacheMiss
    \/ CacheError
    \/ PortalOk
    \/ PortalHTTPError
    \/ PortalOtherError
    \/ ConfigGiven
    \/ ConfigFound
    \/ ConfigMissing
    \/ UnsupportedAction
    \/ HandlerReturns
    \/ InvalidConfiguration
    \/ HandlerKeyError
    \/ HandlerError
    \/ FailurePublished
    \/ FailurePublishError

SpecExecuteAction == InitExecuteActionOnly /\ [][NextExecuteAction]_vars

\* ------------------------------------------------------------- one source, two cycles
\* Two units of work for device d1 are taken, one by each worker (the bus
\* delivers at least once, account cycles can overlap); nothing or an old
\* state is stored for d1.
InitSameSource ==
    /\ NoSequencerCall
    /\ NoFanOut
    /\ NoExecuteAction
    /\ store \in { [d \in Devices |-> IF d = "d1" THEN v ELSE NoValue] :
                     v \in {NoValue, json_dumps([recorded_at |-> 1])} }
    /\ now = Lookback
    /\ CycleLocalsInit("idle")

\* The /positions response holds at most two positions, oldest first, and
\* Traccar keeps what it has reported: a position the other cycle was given
\* is in this response too if it lies above this cycle's lower bound.
FetchAfter(w) ==
    /\ FetchOkFrom(w, { r \in SeqsUpTo({ p \in TraccarPosition : p.deviceTime = p.fixTime }, 2) :
                          \A i, j \in DOMAIN r : i < j => r[i].fixTime < r[j].fixTime })
    /\ \A v \in Workers \ {w} :
          \A i \in DOMAIN traccar_observations[v] :
              getattr(traccar_observations[v][i], action_config[w].recorded_at_field_name) > start_at[w]
                  => \E j \in DOMAIN traccar_observations'[w] :
                         traccar_observations'[w][j] = traccar_observations[v][i]

NextSameSource ==
    \/ StartOnce("w1", "d1")
    \/ StartOnce("w2", "d1")
    \/ \E w \in Workers :
        \/ GetStateOk(w)
        \/ GetStateRedisError(w)
        \/ FetchAfter(w)
        \/ FetchHTTPError(w)
        \/ FetchOtherError(w)
        \/ DeliverOk(w)
        \/ DeliverHTTPError(w)
        \/ DeliverOtherError(w)
        \/ SetStateOk(w)
        \/ SetStateRedisError(w)
        \/ Abandon(w)

SpecSameSource == InitSameSource /\ [][NextSameSource]_vars

\* ------------------------------------------------------------- a cycle and the next one
\* Worker w1 runs one cycle for d1; when it has ended, the next cycle for d1
\* runs (on w2, so that what the first cycle did stays in view) with the same
\* configuration (fixTime, batches of one), at the same or a later clock
\* reading; neither process is killed.
StartNext ==
    /\ pc["w1"] = "done"
    /\ pc["w2"] = "idle"
    /\ StartCycle("w2", "d1")
    /\ action_config'["w2"] = action_config["w1"]

NextRetry ==
    \/ StartOnce("w1", "d1")
    \/ StartNext
    \/ \E w \in Workers :
        \/ GetStateOk(w)
        \/ GetStateRedisError(w)
        \/ FetchAfter(w)
        \/ FetchHTTPError(w)
        \/ FetchOtherError(w)
        \/ DeliverOk(w)
        \/ DeliverHTTPError(w)
        \/ DeliverOtherError(w)
        \/ SetStateOk(w)
        \/ SetStateRedisError(w)

SpecRetry == InitSameSource /\ [][NextRetry]_vars

\* ------------------------------------------------------------- one cycle, scheduled fairly
\* One cycle for d1 on w1 with any configuration and any response. Every I/O
\* call of the cycle completes (it returns or raises) and the event loop then
\* resumes the handler: a step that stays possible is taken.
NextFairCycle ==
    \/ pc["w1"] = "idle" /\ StartCycle("w1", "d1")
    \/ GetStateOk("w1")
    \/ GetStateRedisError("w1")
    \/ FetchOk("w1")
    \/ FetchHTTPError("w1")
    \/ FetchOtherError("w1")
    \/ DeliverOk("w1")
    \/ DeliverHTTPError("w1")
    \/ DeliverOtherError("w1")
    \/ SetStateOk("w1")
    \/ SetStateRedisError("w1")
    \/ Abandon("w1")

SpecFairCycle == InitSameSource /\ [][NextFairCycle]_vars /\ WF_vars(NextFairCycle)

\* ------------------------------------------------------------- properties
Range(s) == { s[k] : k \in DOMAIN s }
Device(w) == action_config[w].device_id
Field(w) == action_config[w].recorded_at_field_name
Started(w) == pc[w] \notin {"idle", "off"}

\* The instant a stored state holds.
Watermark(v) == parse_datetime(v.recorded_at)

\* The observations of the positions the sequencer produced in w's cycle.
SequencedObservations(w) ==
    { transform(p, Device(w), action_config[w].device_name, Field(w)) :
        p \in Range(traccar_observations[w]) }

\* The observations of the batches the downstream accepted in w's cycle.
DeliveredObservations(w) == UNION { Range(delivered[w][b]) : b \in DOMAIN delivered[w] }

\* The largest primary time among the positions sequenced in w's cycle.
MaxPrimaryTime(w) ==
    CHOOSE t \in { getattr(p, Field(w)) : p \in Range(traccar_observations[w]) } :
        \A p \in Range(traccar_observations[w]) : getattr(p, Field(w)) <= t

StrictlyIncreasing(s, name) ==
    \A i, j \in DOMAIN s : i < j => getattr(s[i], name) < getattr(s[j], name)

\* The cursor generate_positions starts from.
Cursor(lower_date) == IF lower_date = None THEN DatetimeMin ELSE lower_date[1]

\* How many emitted positions carry primary time t.
Emitted(t) == Cardinality({ k \in DOMAIN seq_out : getattr(seq_out[k], seq_field) = t })

SequencerCalled == seq_pc \in {"called", "called_again"}

\* C1: in cycles of one source that run one after another, no step replaces a
\* stored watermark by a state with a smaller recorded_at (or by anything that
\* is not a state): every write is at or above the value stored before it.
C1_WatermarkNeverRewound ==
    [][\A d \in Devices :
          (store[d].kind = "state" /\ store'[d] # store[d])
              => /\ store'[d].kind = "state"
                 /\ Watermark(store'[d]) >= Watermark(store[d])]_vars

C1_Witness ==
    \E w \in Workers :
        /\ writes[w] = 1
        /\ store_at_start[w].kind = "state"
        /\ Watermark(store[Device(w)]) > Watermark(store_at_start[w])

\* C2: when a cycle is about to write or has written the watermark, every
\* observation sequenced in that cycle was accepted by a successful delivery
\* call, and once written the watermark is at or above each of them.
C2_WrittenWatermarkCoversOnlyDelivered ==
    \A w \in Workers :
        (pc[w] = "set_state" \/ writes[w] > 0)
            => \A o \in SequencedObservations(w) :
                  /\ o \in DeliveredObservations(w)
                  /\ writes[w] > 0 => o.recorded_at <= Watermark(store[o.source])

C2_Witness ==
    \E w \in Workers :
        /\ writes[w] = 1
        /\ Len(delivered[w]) >= 2
        /\ Cardinality(SequencedObservations(w)) = 3

\* C3: a cycle that ended because a batch used up its delivery attempts has
\* left the stored value of its source as it was when the cycle began.
C3_FailedDeliveryLeavesWatermark ==
    \A w \in Workers :
        (pc[w] = "done" /\ result[w] = Raised("HTTPError"))
            => store[Device(w)] = store_at_start[w]

C3_Witness ==
    \E w \in Workers :
        /\ pc[w] = "done"
        /\ result[w] = Raised("HTTPError")
        /\ Len(Batches(w)) = 3
        /\ Len(delivered[w]) = 2
        /\ store_at_start[w].kind = "state"

\* C4: a cycle writes the watermark at most once; when it has written, every
\* batch was delivered and the stored value is the largest primary time of
\* the sequenced positions; as long as it has not written, the stored value is
\* the one the cycle began with (also when it failed or was abandoned).
C4_PerRunCommit ==
    \A w \in Workers :
        Started(w) =>
            /\ writes[w] <= 1
            /\ writes[w] = 1 =>
                /\ Len(delivered[w]) = Len(Batches(w))
                /\ store[Device(w)] = json_dumps([recorded_at |-> MaxPrimaryTime(w)])
            /\ writes[w] = 0 => store[Device(w)] = store_at_start[w]

C4_Witness ==
    \E w \in Workers :
        /\ writes[w] = 1
        /\ store_at_start[w] = NoValue
        /\ Len(traccar_observations[w]) = 2
        /\ Len(Batches(w)) = 2
        /\ store[Device(w)] = json_dumps([recorded_at |-> MaxPrimaryTime(w)])

\* C5: whatever the list and the lower bound, the primary times of the
\* emitted positions are strictly increasing (in a direct call and in a cycle).
C5_EmittedStrictlyIncreasing ==
    /\ SequencerCalled => StrictlyIncreasing(seq_out, seq_field)
    /\ \A w \in Workers :
          Started(w) => StrictlyIncreasing(traccar_observations[w], Field(w))

C5_Witness ==
    /\ seq_pc = "called"
    /\ Len(seq_in) = 3
    /\ Len(seq_out) = 2
    /\ getattr(seq_in[1], seq_field) > getattr(seq_in[3], seq_field)
    /\ getattr(seq_in[1], seq_field) = getattr(seq_in[2], seq_field)

\* C6 as stated: with a lower bound L given, exactly one position is emitted
\* for every primary time t >= L of the list, and only positions of the list
\* are emitted.
C6_OnePerTimeAtOrAboveBound ==
    (SequencerCalled /\ seq_lower # None) =>
        /\ \A p \in Range(seq_in) :
              getattr(p, seq_field) >= Cursor(seq_lower)
                  => Emitted(getattr(p, seq_field)) = 1
        /\ Range(seq_out) \subseteq Range(seq_in)

\* C6 amended: exactly one position is emitted for every primary time of the
\* list that is strictly greater than the starting cursor (the lower bound,
\* or datetime.min without one), and only positions of the list are emitted.
C6_OnePerTimeAboveBound ==
    SequencerCalled =>
        /\ \A p \in Range(seq_in) :
              getattr(p, seq_field) > Cursor(seq_lower)
                  => Emitted(getattr(p, seq_field)) = 1
        /\ Range(seq_out) \subseteq Range(seq_in)

C6_Witness ==
    /\ seq_pc = "called"
    /\ seq_lower # None
    /\ Len(seq_in) = 3
    /\ Len(seq_out) = 1
    /\ getattr(seq_in[1], seq_field) = Cursor(seq_lower)
    /\ getattr(seq_in[2], seq_field) > Cursor(seq_lower)
    /\ getattr(seq_in[3], seq_field) = getattr(seq_in[2], seq_field)

\* C7: no emitted position has a primary time at or below the starting
\* cursor: positions at the lower bound and older ones are dropped, in a
\* direct call and in a cycle (where the bound is start_at).
C7_NothingAtOrBelowBound ==
    /\ SequencerCalled =>
          \A p \in Range(seq_out) : getattr(p, seq_field) > Cursor(seq_lower)
    /\ \A w \in Workers :
          Started(w) =>
              \A p \in Range(traccar_observations[w]) : getattr(p, Field(w)) > start_at[w]

C7_Witness ==
    /\ seq_pc = "called"
    /\ seq_lower # None
    /\ Len(seq_in) = 3
    /\ Len(seq_out) = 1
    /\ \E i, j, k \in DOMAIN seq_in :
          /\ getattr(seq_in[i], seq_field) < Cursor(seq_lower)
          /\ getattr(seq_in[j], seq_field) = Cursor(seq_lower)
          /\ getattr(seq_in[k], seq_field) > Cursor(seq_lower)

\* C8: calling the sequencer again on the same list, with the bound the next
\* cycle derives from the last emitted primary time, emits nothing.
C8_SecondPassEmitsNothing ==
    seq_pc = "called_again" => seq_again_out = <<>>

C8_Witness ==
    /\ seq_pc = "called_again"
    /\ Len(seq_out) >= 2
    /\ seq_again_lower = Some(getattr(seq_out[Len(seq_out)], seq_field))
    /\ seq_again_out = <<>>

\* C9: an emitted position has the smallest deviceTime among the positions of
\* the list that share its primary time, and it is the only one emitted for
\* that primary time.
C9_FirstOccurrenceKept ==
    SequencerCalled =>
        \A e \in Range(seq_out) :
            /\ \A p \in Range(seq_in) :
                  getattr(p, seq_field) = getattr(e, seq_field)
                      => e.deviceTime <= p.deviceTime
            /\ Emitted(getattr(e, seq_field)) = 1

C9_Witness ==
    /\ seq_pc = "called"
    /\ Len(seq_in) >= 2
    /\ getattr(seq_in[1], seq_field) = getattr(seq_in[2], seq_field)
    /\ seq_in[1].deviceTime > seq_in[2].deviceTime
    /\ seq_in[2] \in Range(seq_out)

\* C10: no batch gets more than DeliveryAttempts delivery calls; a batch is
\* called only when every batch before it was accepted; and a batch whose
\* last allowed call failed ends the cycle: it raises and returns no result.
C10_BoundedAttemptsThenFatal ==
    \A w \in Workers :
        /\ \A k \in DOMAIN calls[w] : calls[w][k] <= DeliveryAttempts
        /\ Len(calls[w]) <= Len(delivered[w]) + 1
        /\ (/\ Len(calls[w]) = Len(delivered[w]) + 1
            /\ calls[w][Len(calls[w])] = DeliveryAttempts)
              => (pc[w] = "done" /\ result[w].kind = "raised")

C10_Witness ==
    \E w \in Workers :
        /\ pc[w] = "done"
        /\ result[w] = Raised("HTTPError")
        /\ Len(Batches(w)) = 3
        /\ calls[w] = <<1, DeliveryAttempts>>
\* The cycle of w returned after delivering (its for loop over the batches ended).
ReturnedAfterDelivery(w) ==
    pc[w] = "done" /\ result[w].kind = "returned" /\ transformed_data[w] # <<>>

\* ceil(N / n), by its defining inequalities.
Ceil(N, n) == CHOOSE k \in 0..N : (k - 1) * n < N /\ N <= k * n

\* In how many places of the accepted batches of w the observation o stands.
TimesDelivered(w, o) ==
    Cardinality({ <<b, k>> \in (DOMAIN delivered[w]) \X (1..MaxFetched + MaxBatch) :
                    k <= Len(delivered[w][b]) /\ delivered[w][b][k] = o })

\* C11: a cycle that returned after delivering N sequenced observations in
\* batches of n had ceil(N/n) batches accepted, and made exactly that many
\* delivery calls when no call failed; every batch but the last holds n
\* observations and the last between 1 and n; every sequenced observation
\* stands in exactly one place of one batch. Five observations in batches of
\* two are cut into sizes 2, 2, 1.
C11_BatchPartition ==
    /\ \A w \in Workers :
          ReturnedAfterDelivery(w) =>
              LET N == Len(traccar_observations[w])
                  n == action_config[w].observations_per_request
                  batches == delivered[w]
              IN  /\ Len(batches) = Ceil(N, n)
                  /\ Len(calls[w]) = Ceil(N, n)
                  /\ \A b \in DOMAIN batches :
                        IF b < Len(batches)
                        THEN Len(batches[b]) = n
                        ELSE Len(batches[b]) \in 1..n
                  /\ \A o \in SequencedObservations(w) : TimesDelivered(w, o) = 1
                  /\ Cardinality(SequencedObservations(w)) = N
    /\ generate_batches(<<1, 2, 3, 4, 5>>, 2) = << <<1, 2>>, <<3, 4>>, <<5>> >>

C11_Witness ==
    \E w \in Workers :
        /\ ReturnedAfterDelivery(w)
        /\ Len(traccar_observations[w]) = 3
        /\ action_config[w].observations_per_request = 2
        /\ calls[w] = <<1, 1>>
        /\ Len(delivered[w][1]) = 2
        /\ Len(delivered[w][2]) = 1

\* The latest primary time among the observations of a batch.
Latest(batch) ==
    CHOOSE t \in { o.recorded_at : o \in Range(batch) } :
        \A o \in Range(batch) : o.recorded_at <= t

\* A delivery call of w's cycle succeeds in this step.
Accepted(w) == Len(delivered'[w]) = Len(delivered[w]) + 1

\* C12 as stated: with 5 sequenced observations and batch size 2, after each
\* successful delivery call the stored watermark is the latest primary time
\* of the batch just delivered.
C12_WatermarkAfterEachDelivery ==
    [][\A w \in Workers :
          (/\ Len(traccar_observations[w]) = 5
           /\ action_config[w].observations_per_request = 2
           /\ Accepted(w))
              => store'[Device(w)] =
                    json_dumps([recorded_at |-> Latest(delivered'[w][Len(delivered'[w])])])]_vars

\* C12 amended: no successful delivery call changes the store; the watermark
\* is written once, after the last batch was accepted, and is then the latest
\* primary time of the first batch delivered, the newest of the cycle (with 5
\* observations and batch size 2: after the third call).
C12_WatermarkAfterLastDelivery ==
    [][\A w \in Workers :
          /\ Accepted(w) => store' = store
          /\ writes'[w] = writes[w] + 1 =>
                /\ Len(delivered[w]) = Len(Batches(w))
                /\ store'[Device(w)] =
                      json_dumps([recorded_at |-> Latest(delivered[w][1])])
                /\ \A b \in DOMAIN delivered[w] :
                      Latest(delivered[w][b]) <= Watermark(store'[Device(w)])]_vars

C12_Witness ==
    \E w \in Workers :
        /\ ReturnedAfterDelivery(w)
        /\ Len(traccar_observations[w]) = 5
        /\ action_config[w].observations_per_request = 2
        /\ calls[w] = <<1, 1, 1>>
        /\ <<Len(delivered[w][1]), Len(delivered[w][2]), Len(delivered[w][3])>> = <<2, 2, 1>>
        /\ writes[w] = 1
        /\ Watermark(store[Device(w)]) = Latest(delivered[w][1])
        /\ Watermark(store[Device(w)]) > Latest(delivered[w][3])

\* The value w's cycle read is corrupt: not JSON, or JSON without the shape
\* of a DeviceState.
ReadCorrupt(w) == json_value[w].kind \in {"not_json", "other_json"}

\* C13: a cycle that read a corrupt stored value goes on as if nothing were
\* stored: the read does not end it with an error, and its lower bound is the
\* default, the cycle's start minus 24h.
C13_CorruptWatermarkTreatedAsAbsent ==
    \A w \in Workers :
        (Started(w) /\ ReadCorrupt(w)) =>
            /\ ~(pc[w] = "done" /\ result[w] = Raised("JSONDecodeError"))
            /\ pc[w] # "get_state" => start_at[w] = start_time_limit[w]

\* The part of C13 the code keeps: JSON of the wrong shape is replaced by the
\* default and the cycle fetches, delivers and commits.
C13_Witness ==
    \E w \in Workers :
        /\ json_value[w] = OtherJson
        /\ start_at[w] = start_time_limit[w]
        /\ ReturnedAfterDelivery(w)
        /\ writes[w] = 1

\* The cycle of w has handed its lower bound to get_positions_since.
ReachedFetch(w) ==
    \/ pc[w] \in {"fetch", "deliver", "set_state"}
    \/ pc[w] = "done" /\ result[w].kind = "returned"

\* C14: the lower bound a cycle hands to the fetch is the larger of the
\* stored watermark it read and the cycle's start minus 24h, and is the
\* cycle's start minus 24h when it read no watermark; so it is never below
\* the cycle's start minus 24h and never below the watermark read.
C14_BoundedLookback ==
    \A w \in Workers :
        ReachedFetch(w) =>
            /\ start_time_limit[w] = now - Lookback
            /\ IF json_value[w].kind = "state"
               THEN /\ start_at[w] = Max(Watermark(json_value[w]), now - Lookback)
                    /\ start_at[w] >= Watermark(json_value[w])
               ELSE start_at[w] = now - Lookback
            /\ start_at[w] >= now - Lookback

C14_Witness ==
    \E w \in Workers :
        /\ pc[w] = "fetch"
        /\ json_value[w].kind = "state"
        /\ Watermark(json_value[w]) < now - Lookback
        /\ start_at[w] = now - Lookback

\* C15: the store read of a cycle is attempted at most StoreAttempts times;
\* when the read gives up on a backend error the cycle ends raising that
\* error, having fetched nothing, made no delivery call and written nothing.
C15_StoreReadBoundedThenFatal ==
    [][\A w \in Workers :
          /\ pc'[w] = "get_state" => attempt'[w] \in 1..StoreAttempts
          /\ (pc[w] = "get_state" /\ pc'[w] = "done" /\ result'[w].error = "RedisError")
                => /\ result'[w] = Raised("RedisError")
                   /\ requests'[w] = <<>>
                   /\ traccar_observations'[w] = <<>>
                   /\ transformed_data'[w] = <<>>
                   /\ calls'[w] = <<>>
                   /\ delivered'[w] = <<>>
                   /\ writes'[w] = 0
                   /\ store' = store
                   /\ store'[Device(w)] = store_at_start[w]]_vars

C15_Witness ==
    \E w \in Workers :
        /\ pc[w] = "done"
        /\ result[w] = Raised("RedisError")
        /\ attempt[w] = StoreAttempts
        /\ transformed_data[w] = <<>>
        /\ store_at_start[w].kind = "state"
        /\ store[Device(w)] = store_at_start[w]

\* The last /positions request of w's cycle failed with an httpx.HTTPError
\* (timeout, connection error, error status) and the cycle is over.
EndedAfterFailedFetch(w) ==
    /\ pc[w] = "done"
    /\ requests[w] # <<>>
    /\ requests[w][Len(requests[w])] = "HTTPError"

\* C16: a cycle whose positions fetch failed completes without error: it
\* returns 0 extracted observations, has made no delivery call and has left
\* the stored watermark as it was.
C16_FailedFetchGivesEmptyCycle ==
    \A w \in Workers :
        EndedAfterFailedFetch(w) =>
            /\ result[w] = Returned(0)
            /\ calls[w] = <<>>
            /\ writes[w] = 0
            /\ store[Device(w)] = store_at_start[w]

\* What the code does on that input: no delivery and no write, but the cycle
\* ends with TypeError instead of a result.
C16_Witness ==
    \E w \in Workers :
        /\ EndedAfterFailedFetch(w)
        /\ result[w] = Raised("TypeError")
        /\ calls[w] = <<>>
        /\ writes[w] = 0
        /\ store_at_start[w].kind = "state"
        /\ store[Device(w)] = store_at_start[w]

\* C17: a /positions request that failed with an httpx.HTTPError is followed
\* by another request of the same fetch: once the fetch is over, a failed
\* first request is not the only one.
C17_FailedFetchIsRetried ==
    \A w \in Workers :
        (pc[w] # "fetch" /\ requests[w] # <<>> /\ requests[w][1] = "HTTPError")
            => Len(requests[w]) >= 2

\* What the code does: the fetch is over after its one failed request.
C17_Witness ==
    \E w \in Workers :
        /\ pc[w] = "done"
        /\ requests[w] = <<"HTTPError">>

\* C18: a fan-out that returned has published exactly one event per device
\* of the /devices response, in the order of the response, each carrying
\* that device's id (as a string), its name and the account's
\* recorded_at_field_name, and has returned the number of devices.
C18_OneUnitPerSourceInOrder ==
    (fan_pc = "done" /\ fan_result.kind = "returned") =>
        /\ Len(published) = Len(devices_json)
        /\ \A k \in DOMAIN devices_json :
              /\ published[k].action_id = "pull_observations_per_device"
              /\ published[k].config_data =
                    [device_id |-> str_id(devices_json[k].id),
                     device_name |-> devices_json[k].name,
                     recorded_at_field_name |-> fan_config.recorded_at_field_name]
        /\ fan_result = Returned(Len(devices_json))

C18_Witness ==
    /\ fan_pc = "done"
    /\ fan_result = Returned(3)
    /\ Len(FanBatches) = 2
    /\ fan_config.recorded_at_field_name = "serverTime"
    /\ devices_json[1].id > devices_json[2].id
    /\ devices_json[3].id # devices_json[1].id
    /\ published[3].config_data.device_id = str_id(devices_json[3].id)

\* C19: the device listing is attempted at most ListAttempts times; as long
\* as no listing succeeded nothing is published, and when the listing gives
\* up on the error the fan-out ends raising it, with nothing published.
C19_EnumerationFailureIsFatal ==
    /\ fan_pc = "list" => (fan_attempt \in 1..ListAttempts /\ published = <<>>)
    /\ (fan_pc = "done" /\ fan_result = Raised("HTTPError")) =>
          /\ fan_attempt \in 1..ListAttempts
          /\ devices = <<>>
          /\ published = <<>>
    /\ (fan_pc = "done" /\ devices_json = <<>> /\ fan_result.kind = "returned") =>
          fan_attempt \in 1..ListAttempts

C19_Witness ==
    /\ fan_pc = "done"
    /\ fan_result = Raised("HTTPError")
    /\ fan_attempt = ListAttempts
    /\ fan_tries = MaxTries
    /\ published = <<>>

\* Everything the cycle of worker w holds.
Locals(w) ==
    <<pc[w], action_config[w], start_time_limit[w], json_value[w], start_at[w],
      traccar_observations[w], transformed_data[w], batch_no[w], attempt[w],
      result[w], delivered[w], calls[w], writes[w], store_at_start[w], requests[w]>>

\* The cycle of w ends in this step without returning a result.
Fails(w) == pc[w] # "done" /\ pc'[w] = "done" /\ result'[w].kind # "returned"

\* C20: with cycles for distinct sources interleaved in any order, a cycle
\* reads the stored value of its own device only and writes under the key of
\* its own device only; every change of the store is the write of the cycle
\* of that key's device, so the key of a cycle's device holds, all through the
\* cycle, the value the cycle began with or the one it wrote; and a step in
\* which a cycle fails leaves the store and the other cycle as they were.
C20_PerSourceIsolation ==
    [][\A w \in Workers :
          /\ (pc[w] = "get_state" /\ pc'[w] = "fetch") =>
                /\ json_value'[w] = store[Device(w)]
                /\ json_value'[w] = store_at_start[w]
          /\ writes'[w] = writes[w] + 1 =>
                /\ store'[Device(w)] = json_dumps([recorded_at |-> MaxPrimaryTime(w)])
                /\ \A d \in Devices \ {Device(w)} : store'[d] = store[d]
                /\ \A v \in Workers \ {w} : Locals(v)' = Locals(v)
          /\ \A d \in Devices :
                store'[d] # store[d] =>
                    \E v \in Workers :
                        Started(v) /\ Device(v) = d /\ writes'[v] = writes[v] + 1
          /\ Started(w)' =>
                store'[Device(w)'] =
                    IF writes'[w] = 1
                    THEN json_dumps([recorded_at |-> MaxPrimaryTime(w)'])
                    ELSE store_at_start'[w]
          /\ Fails(w) =>
                /\ store' = store
                /\ \A v \in Workers \ {w} : Locals(v)' = Locals(v)]_vars

C20_Witness ==
    /\ pc = [w \in Workers |-> "done"]
    /\ Device("w1") = "d1" /\ Device("w2") = "d2"
    /\ result["w1"] = Raised("HTTPError")
    /\ calls["w1"] = <<DeliveryAttempts>>
    /\ store_at_start["w1"].kind = "state"
    /\ store["d1"] = store_at_start["w1"]
    /\ result["w2"] = Returned(1)
    /\ writes["w2"] = 1
    /\ store_at_start["w2"] = NoValue
    /\ store["d2"] = json_dumps([recorded_at |-> MaxPrimaryTime("w2")])

\* C21: a finished call of execute_action (whose failure event, if any, the
\* bus accepted) has either returned the handler's result, with no failure
\* event, or has published one failure event and returned a failure
\* response; no exception has left it, whatever failed and whether the
\* configuration was looked up or passed in.
C21_ResultOrFailureResponse ==
    (run_pc = "done" /\ run_outcome # Escaped("PublishError")) =>
        \/ run_outcome = HandlerResult /\ run_events = <<>>
        \/ /\ run_outcome.kind = "failure"
           /\ run_outcome.status \in {404, 422} \cup ErrorStatuses
           /\ run_events = <<run_outcome.error>>

\* What holds on the looked-up path: an unsupported action ends in the 422
\* response with its failure event published.
C21_Witness ==
    /\ run_pc = "done"
    /\ run_action_id \notin SupportedActions
    /\ ~ConfigPassed
    /\ run_action_config = "found"
    /\ run_outcome = FailureResponse(422, "action not supported")
    /\ run_events = <<"action not supported">>

\* C22: the batches of a cycle go out newest first: every observation of a
\* batch delivered earlier has a larger primary time than every observation
\* of a batch delivered later, the observations of a batch are in descending
\* order of primary time, and the first observation of the first batch
\* carries the largest primary time of the cycle.
C22_NewestFirst ==
    \A w \in Workers :
        (Started(w) /\ delivered[w] # <<>>) =>
            /\ \A b1, b2 \in DOMAIN delivered[w] :
                  b1 < b2 =>
                      \A o1 \in Range(delivered[w][b1]), o2 \in Range(delivered[w][b2]) :
                          o1.recorded_at > o2.recorded_at
            /\ \A b \in DOMAIN delivered[w] :
                  \A i, j \in DOMAIN delivered[w][b] :
                      i < j => delivered[w][b][i].recorded_at > delivered[w][b][j].recorded_at
            /\ delivered[w][1][1].recorded_at = MaxPrimaryTime(w)

C22_Witness ==
    \E w \in Workers :
        /\ Len(delivered[w]) = 3
        /\ Len(delivered[w][1]) = 2
        /\ Len(delivered[w][3]) = 1
        /\ delivered[w][1][2].recorded_at > delivered[w][2][1].recorded_at
        /\ delivered[w][1][1].recorded_at = MaxPrimaryTime(w)
        /\ writes[w] = 1


\* C23: even when two cycles for the same source overlap, no commit of a
\* cycle replaces the stored watermark of its source by a smaller one: every
\* write leaves a watermark at least as large as the one stored before it.
C23_OverlapNeverRewinds ==
    [][\A w \in Workers :
          (writes'[w] = writes[w] + 1 /\ store[Device(w)].kind = "state") =>
              /\ store'[Device(w)].kind = "state"
              /\ Watermark(store'[Device(w)]) >= Watermark(store[Device(w)])]_vars

\* C23 case: both cycles read the watermark before either committed, both
\* delivered and both committed, and the value left in the store is older
\* than an observation one of them delivered and committed.
C23_Witness ==
    /\ \A w \in Workers : Device(w) = "d1" /\ writes[w] = 1 /\ pc[w] = "done"
    /\ store_at_start["w1"] = store_at_start["w2"]
    /\ store["d1"].kind = "state"
    /\ \E w \in Workers : MaxPrimaryTime(w) > Watermark(store["d1"])


\* The cycle of w delivered every batch and then failed in the watermark write.
FailedCommit(w) ==
    /\ pc[w] = "done"
    /\ result[w] = Raised("RedisError")
    /\ transformed_data[w] # <<>>

\* The cycle of w has been given its /positions response.
Fetched(w) == requests[w] # <<>> /\ requests[w][Len(requests[w])] = "ok"

\* C24 as stated: when every batch of a cycle was delivered and the watermark
\* write then failed, the next cycle sequences the same observations again,
\* all of them.
C24_NextCycleSequencesAllAgain ==
    (FailedCommit("w1") /\ Fetched("w2")) =>
        Range(traccar_observations["w1"]) \subseteq Range(traccar_observations["w2"])

\* C24, amended: when every batch of a cycle was delivered and the watermark
\* write then failed, the cycle ends in the RedisError with nothing written and
\* every sequenced observation delivered, the stored value is the one the cycle
\* began with, and the next cycle starts from that value: it sequences again
\* (and, when it returns, has delivered again) every observation of the failed
\* cycle that is newer than its own lookback limit. No observation is skipped,
\* as the ones it leaves out were delivered by the failed cycle.
C24_FailedCommitRedelivers ==
    FailedCommit("w1") =>
        /\ writes["w1"] = 0
        /\ attempt["w1"] <= StoreAttempts
        /\ Len(delivered["w1"]) = Len(Batches("w1"))
        /\ DeliveredObservations("w1") = SequencedObservations("w1")
        /\ pc["w2"] = "idle" => store["d1"] = store_at_start["w1"]
        /\ Started("w2") => store_at_start["w2"] = store_at_start["w1"]
        /\ Fetched("w2") =>
              \A p \in Range(traccar_observations["w1"]) :
                  getattr(p, Field("w1")) > start_time_limit["w2"]
                      => p \in Range(traccar_observations["w2"])
        /\ (pc["w2"] = "done" /\ result["w2"].kind = "returned") =>
              \A o \in SequencedObservations("w1") :
                  o.recorded_at > start_time_limit["w2"]
                      => o \in DeliveredObservations("w2")

\* C24 case: the write failed on its last attempt after the delivery of the
\* only batch, and the next cycle has delivered the same observation again.
C24_Witness ==
    /\ FailedCommit("w1")
    /\ attempt["w1"] = StoreAttempts
    /\ pc["w2"] = "done"
    /\ result["w2"].kind = "returned"
    /\ DeliveredObservations("w1") # {}
    /\ DeliveredObservations("w1") \subseteq DeliveredObservations("w2")


\* C25: a cycle whose fetch gave no position newer than the lower bound (the
\* sequencer's output is empty) has ended with extracted_observations = 0,
\* having made no delivery call and no watermark write: the store holds for
\* its device what it held when the cycle began.
C25_EmptyFetchIsNoOp ==
    \A w \in Workers :
        (Started(w) /\ Fetched(w) /\ traccar_observations[w] = <<>>) =>
            /\ pc[w] = "done"
            /\ result[w] = Returned(0)
            /\ transformed_data[w] = <<>>
            /\ calls[w] = <<>>
            /\ delivered[w] = <<>>
            /\ writes[w] = 0
            /\ store[Device(w)] = store_at_start[w]

\* C25 case: a watermark is stored, the fetch was answered, and the cycle
\* returned 0 because nothing in the answer was newer than the lower bound.
C25_Witness ==
    /\ pc["w1"] = "done"
    /\ Fetched("w1")
    /\ traccar_observations["w1"] = <<>>
    /\ result["w1"] = Returned(0)
    /\ store_at_start["w1"].kind = "state"


RECURSIVE SumOf(_)
SumOf(s) == IF s = <<>> THEN 0 ELSE s[1] + SumOf(Tail(s))

\* The attempts of a running cycle stay within their bounds.
AttemptsBounded(w) ==
    /\ Len(calls[w]) <= Len(Batches(w))
    /\ \A i \in DOMAIN calls[w] : calls[w][i] <= DeliveryAttempts
    /\ SumOf(calls[w]) <= DeliveryAttempts * Len(Batches(w))
    /\ pc[w] \in {"get_state", "set_state"} => attempt[w] <= StoreAttempts
    /\ Len(requests[w]) <= 1
    /\ writes[w] <= 1

\* C26: every per-device cycle terminates. A cycle over N batches makes at
\* most 3 delivery attempts per batch, 3*N in all, at most 5 attempts per store
\* access and one fetch, and a cycle that has begun ends: it returns a result
\* or an error is raised out of it.
C26_CycleTerminates ==
    /\ [](\A w \in Workers : Started(w) => AttemptsBounded(w))
    /\ \A w \in Workers :
          (pc[w] = "get_state") ~>
              (pc[w] = "done" /\ result[w].kind \in {"returned", "raised", "cancelled"})

\* C26 case: a cycle over three batches has ended after every delivery
\* attempt the bound allows: 3 attempts for each of two batches and a third
\* batch that used up its 3 attempts.
C26_Witness ==
    /\ pc["w1"] = "done"
    /\ result["w1"] = Raised("HTTPError")
    /\ Len(Batches("w1")) = 3
    /\ calls["w1"] = <<DeliveryAttempts, DeliveryAttempts, DeliveryAttempts>>

====
